---- MODULE Spec2Model ----
(***************************************************************************)
(* Model of desafio_v2.py: bank accounts (Conta, ContaCorrente), their     *)
(* history (Historico) and its report generator, the transactions (Saque,  *)
(* Deposito), the customer gate (Cliente.realizar_transacao) and the       *)
(* entry points of the menu (depositar, sacar, exibir_extrato,             *)
(* criar_cliente, criar_conta).  The log file of log_transacao and the     *)
(* listing of listar_contas, which change no account, are left out.        *)
(*                                                                         *)
(* Amounts are whole currency units (integers); the clock has the          *)
(* granularity of one calendar day (UTC).  The print of each rejection is  *)
(* modelled by the reason it reports (field motivo).                       *)
(***************************************************************************)
EXTENDS Integers, Sequences, FiniteSets, TLC

(* ------------------------------ bounds -------------------------------- *)
MaxDias == 2          \* calendar days the clock can reach
MaxHist == 4          \* records kept, over all account histories
MaxSaldo == 1000      \* largest balance an accepted deposit may produce
MaxContas == 2        \* accounts a customer may be given
MaxLivro == 5         \* records kept when every change goes through registrar
MaxClientes == 2      \* customers the directory may hold
MaxContasMenu == 2    \* accounts criar_conta may create
MaxGeradores == 2     \* report generators alive at once
MaxRelatorio == 3     \* records of the history the generators run over
MaxMenu == 3          \* records kept, over the accounts criar_conta created

(* ------------------------- program constants -------------------------- *)
LIMITE == 500             \* ContaCorrente.__init__ default limite
LIMITE_SAQUES == 3        \* ContaCorrente.__init__ default limite_saques
                          \* (criar_conta passes 50)
LIMITE_TRANSACOES_DIA == 2  \* Cliente.realizar_transacao: ">= 2"
LIMITE_NOVA_CONTA == 500          \* criar_conta: limite=500
LIMITE_SAQUES_NOVA_CONTA == 50    \* criar_conta: limite_saques=50

(* ------------------------------ objects ------------------------------- *)
Clientes == {1}
Contas == {1, 2}
\* the account objects criar_conta creates, by their numero
ContaDeNumero(n) == 2 + n
ContasMenu == {ContaDeNumero(n) : n \in 1..MaxContasMenu}
TodasContas == Contas \cup ContasMenu
\* the class of each account object
Classe(a) == IF a = 2 THEN "Conta" ELSE "ContaCorrente"
\* amounts the callers pass
Valores == {-500, 0, 500, 1000}
Tipos == {"Saque", "Deposito"}

\* the tax ids typed at the menu
CPFs == {"111", "222"}

VARIABLES saldo, transacoes, contas, agora, ultima,
          clientes,        \* main: the list clientes, each with cpf and contas
          contas_criadas,  \* main: the list contas
          geradores        \* the generators gerar_relatorio has returned
vars == <<saldo, transacoes, contas, agora, ultima,
          clientes, contas_criadas, geradores>>

(* ------------------------------- clock -------------------------------- *)
\* datetime.utcnow().date() on day n of the run; the run starts on
\* 30-12-2025 so that the month and the year change within the bounds
DataDe(n) ==
    IF n <= 2 THEN [dia |-> 29 + n, mes |-> 12, ano |-> 2025]
    ELSE [dia |-> n - 2, mes |-> 1, ano |-> 2026]

Digitos == <<"0", "1", "2", "3", "4", "5", "6", "7", "8", "9">>
ValorDigito == [c \in {Digitos[i] : i \in 1..10} |->
                   (CHOOSE i \in 1..10 : Digitos[i] = c) - 1]
Digito(c) == ValorDigito[c]

\* strftime("%d-%m-%Y ..."): zero padded day, month and year
Strftime(d) ==
    << Digitos[(d.dia \div 10) + 1], Digitos[(d.dia % 10) + 1], "-",
       Digitos[(d.mes \div 10) + 1], Digitos[(d.mes % 10) + 1], "-",
       Digitos[(d.ano \div 1000) + 1], Digitos[((d.ano \div 100) % 10) + 1],
       Digitos[((d.ano \div 10) % 10) + 1], Digitos[(d.ano % 10) + 1] >>

\* datetime.strptime(s, "%d-%m-%Y ...").date()
Strptime(s) ==
    [dia |-> Digito(s[1]) * 10 + Digito(s[2]),
     mes |-> Digito(s[4]) * 10 + Digito(s[5]),
     ano |-> Digito(s[7]) * 1000 + Digito(s[8]) * 100
             + Digito(s[9]) * 10 + Digito(s[10])]

(* ----------------------------- Historico ------------------------------ *)
\* adicionar_transacao that inserts at the front
Historico_adicionar_transacao_inicio(h, tipo, valor, dia) ==
    <<[tipo |-> tipo, valor |-> valor, data |-> Strftime(DataDe(dia))]>> \o h

\* adicionar_transacao that overwrites the last record
Historico_adicionar_transacao_substitui(h, tipo, valor, dia) ==
    LET t == [tipo |-> tipo, valor |-> valor, data |-> Strftime(DataDe(dia))]
    IN  IF h = <<>> THEN <<t>> ELSE [h EXCEPT ![Len(h)] = t]

Historico_adicionar_transacao(h, tipo, valor, dia) ==
    Append(h, [tipo |-> tipo, valor |-> valor, data |-> Strftime(DataDe(dia))])

\* transacoes_do_dia without the date test
Historico_transacoes_do_dia_todas(h, dia) == h

\* transacoes_do_dia that compares the month and the year only
Historico_transacoes_do_dia_mes(h, dia) ==
    LET data_atual == DataDe(dia)
        DoMes(t) == /\ data_atual.mes = Strptime(t.data).mes
                    /\ data_atual.ano = Strptime(t.data).ano
    IN  SelectSeq(h, DoMes)

Historico_transacoes_do_dia(h, dia) ==
    LET data_atual == DataDe(dia)
        DoDia(t) == data_atual = Strptime(t.data)
    IN  SelectSeq(h, DoDia)

(* ---------------------- Historico.gerar_relatorio --------------------- *)
\* the default of the parameter tipo_transacao
None == "<None>"
\* the filters the callers pass
Filtros == {None, "saque", "DEPOSITO"}

\* the characters of the strings in play
Letras(s) ==
    CASE s = "Saque" -> <<"S", "a", "q", "u", "e">>
      [] s = "Deposito" -> <<"D", "e", "p", "o", "s", "i", "t", "o">>
      [] s = "saque" -> <<"s", "a", "q", "u", "e">>
      [] s = "DEPOSITO" -> <<"D", "E", "P", "O", "S", "I", "T", "O">>

Maiusculas == <<"A", "B", "C", "D", "E", "F", "G", "H", "I", "J", "K", "L", "M",
                "N", "O", "P", "Q", "R", "S", "T", "U", "V", "W", "X", "Y", "Z">>
Minusculas == <<"a", "b", "c", "d", "e", "f", "g", "h", "i", "j", "k", "l", "m",
                "n", "o", "p", "q", "r", "s", "t", "u", "v", "w", "x", "y", "z">>
LetraMinuscula ==
    [c \in {Maiusculas[i] : i \in 1..26} \cup {Minusculas[i] : i \in 1..26} |->
        IF \E i \in 1..26 : Maiusculas[i] = c
        THEN Minusculas[CHOOSE i \in 1..26 : Maiusculas[i] = c]
        ELSE c]
\* str.lower(), character by character, of each string in play
Textos == {"Saque", "Deposito", "saque", "DEPOSITO"}
Minusculo == [s \in Textos |->
                 [i \in 1..Len(Letras(s)) |-> LetraMinuscula[Letras(s)[i]]]]
Lower(s) == Minusculo[s]

\* the generator object gerar_relatorio(tipo_transacao) returns on the
\* history of account a: nothing of its body has run yet.  indice is the
\* position of the list iterator, saida what it has yielded so far and
\* lista_no_fim the list as it was when the generator ran to its end
NovoGerador(a, tipo_transacao) ==
    [conta |-> a, tipo_transacao |-> tipo_transacao, indice |-> 0,
     fim |-> FALSE, saida |-> <<>>, lista_no_fim |-> <<>>]

\* gerar_relatorio that compares the kinds without lower()
Historico_gerar_relatorio_sem_lower(h, g) ==
    LET Relata(t) == g.tipo_transacao = None \/ t.tipo = g.tipo_transacao
        candidatos == {i \in (g.indice + 1)..Len(h) : Relata(h[i])}
    IN  IF g.fim THEN g
        ELSE IF candidatos = {}
        THEN [g EXCEPT !.indice = Len(h), !.fim = TRUE, !.lista_no_fim = h]
        ELSE LET i == CHOOSE i \in candidatos : \A j \in candidatos : i <= j
             IN  [g EXCEPT !.indice = i, !.saida = Append(@, h[i])]

\* next(g): the body of gerar_relatorio runs over the list h as it is now,
\* from where it stopped to its next yield, or to the end of the list
Historico_gerar_relatorio(h, g) ==
    LET Relata(t) ==
            \/ g.tipo_transacao = None
            \/ Lower(t.tipo) = Lower(g.tipo_transacao)
        candidatos == {i \in (g.indice + 1)..Len(h) : Relata(h[i])}
    IN  IF g.fim THEN g
        ELSE IF candidatos = {}
        THEN [g EXCEPT !.indice = Len(h), !.fim = TRUE, !.lista_no_fim = h]
        ELSE LET i == CHOOSE i \in candidatos : \A j \in candidatos : i <= j
             IN  [g EXCEPT !.indice = i, !.saida = Append(@, h[i])]

(* ------------------------------- Conta -------------------------------- *)
\* Conta.sacar without the balance test
Conta_sacar_sem_saldo(s, valor) ==
    IF valor > 0
    THEN [sucesso |-> TRUE, saldo |-> s - valor, motivo |-> "ok"]
    ELSE [sucesso |-> FALSE, saldo |-> s, motivo |-> "InvalidAmount"]

\* Conta.sacar with ">=" for ">" in the balance test
Conta_sacar_maior_igual(s, valor) ==
    IF valor >= s
    THEN [sucesso |-> FALSE, saldo |-> s, motivo |-> "InsufficientFunds"]
    ELSE IF valor > 0
    THEN [sucesso |-> TRUE, saldo |-> s - valor, motivo |-> "ok"]
    ELSE [sucesso |-> FALSE, saldo |-> s, motivo |-> "InvalidAmount"]

Conta_sacar(s, valor) ==
    IF valor > s
    THEN [sucesso |-> FALSE, saldo |-> s, motivo |-> "InsufficientFunds"]
    ELSE IF valor > 0
    THEN [sucesso |-> TRUE, saldo |-> s - valor, motivo |-> "ok"]
    ELSE [sucesso |-> FALSE, saldo |-> s, motivo |-> "InvalidAmount"]

\* Conta.depositar without the test of the amount
Conta_depositar_sem_teste(s, valor) ==
    [sucesso |-> TRUE, saldo |-> s + valor, motivo |-> "ok"]

\* Conta.depositar with ">=" for ">"
Conta_depositar_maior_igual(s, valor) ==
    IF valor >= 0
    THEN [sucesso |-> TRUE, saldo |-> s + valor, motivo |-> "ok"]
    ELSE [sucesso |-> FALSE, saldo |-> s, motivo |-> "InvalidAmount"]

Conta_depositar(s, valor) ==
    IF valor > 0
    THEN [sucesso |-> TRUE, saldo |-> s + valor, motivo |-> "ok"]
    ELSE [sucesso |-> FALSE, saldo |-> s, motivo |-> "InvalidAmount"]

(* --------------------------- ContaCorrente ---------------------------- *)
NumeroSaques(h) ==
    LET EhSaque(t) == t.tipo = "Saque" IN Len(SelectSeq(h, EhSaque))

\* ContaCorrente.sacar with ">" for ">=" in the count test
ContaCorrente_sacar_maior(s, h, valor) ==
    IF valor > LIMITE
    THEN [sucesso |-> FALSE, saldo |-> s, motivo |-> "WithdrawalLimitExceeded"]
    ELSE IF NumeroSaques(h) > LIMITE_SAQUES
    THEN [sucesso |-> FALSE, saldo |-> s, motivo |-> "WithdrawalCountExceeded"]
    ELSE Conta_sacar(s, valor)

\* ContaCorrente.sacar with ">=" for ">" in the amount test
ContaCorrente_sacar_limite(s, h, valor) ==
    IF valor >= LIMITE
    THEN [sucesso |-> FALSE, saldo |-> s, motivo |-> "WithdrawalLimitExceeded"]
    ELSE IF NumeroSaques(h) >= LIMITE_SAQUES
    THEN [sucesso |-> FALSE, saldo |-> s, motivo |-> "WithdrawalCountExceeded"]
    ELSE Conta_sacar(s, valor)

\* ContaCorrente.sacar with the two tests in the other order
ContaCorrente_sacar_ordem(s, h, valor) ==
    IF NumeroSaques(h) >= LIMITE_SAQUES
    THEN [sucesso |-> FALSE, saldo |-> s, motivo |-> "WithdrawalCountExceeded"]
    ELSE IF valor > LIMITE
    THEN [sucesso |-> FALSE, saldo |-> s, motivo |-> "WithdrawalLimitExceeded"]
    ELSE Conta_sacar(s, valor)

\* ContaCorrente.sacar without the test of the amount against the limit
ContaCorrente_sacar_sem_limite(s, h, valor) ==
    IF NumeroSaques(h) >= LIMITE_SAQUES
    THEN [sucesso |-> FALSE, saldo |-> s, motivo |-> "WithdrawalCountExceeded"]
    ELSE Conta_sacar(s, valor)

ContaCorrente_sacar(s, h, valor) ==
    LET numero_saques == NumeroSaques(h)
        excedeu_limite == valor > LIMITE
        excedeu_saques == numero_saques >= LIMITE_SAQUES
    IN  IF excedeu_limite
        THEN [sucesso |-> FALSE, saldo |-> s, motivo |-> "WithdrawalLimitExceeded"]
        ELSE IF excedeu_saques
        THEN [sucesso |-> FALSE, saldo |-> s, motivo |-> "WithdrawalCountExceeded"]
        ELSE Conta_sacar(s, valor)

\* ContaCorrente.sacar of an account constructed with the given limits
ContaCorrente_sacar_com(s, h, valor, limite, limite_saques) ==
    LET numero_saques == NumeroSaques(h)
        excedeu_limite == valor > limite
        excedeu_saques == numero_saques >= limite_saques
    IN  IF excedeu_limite
        THEN [sucesso |-> FALSE, saldo |-> s, motivo |-> "WithdrawalLimitExceeded"]
        ELSE IF excedeu_saques
        THEN [sucesso |-> FALSE, saldo |-> s, motivo |-> "WithdrawalCountExceeded"]
        ELSE Conta_sacar(s, valor)

\* conta.sacar(valor) / conta.depositar(valor): dispatch on the class; the
\* accounts of criar_conta carry the limits criar_conta passes
Sacar(a, s, h, valor) ==
    IF a \in ContasMenu
    THEN ContaCorrente_sacar_com(s, h, valor, LIMITE_NOVA_CONTA,
                                 LIMITE_SAQUES_NOVA_CONTA)
    ELSE IF Classe(a) = "ContaCorrente" THEN ContaCorrente_sacar(s, h, valor)
    ELSE Conta_sacar(s, valor)

Depositar(a, s, h, valor) == Conta_depositar(s, valor)

(* ---------------------------- Transacao ------------------------------- *)
\* the result of an operation on one account: its new balance and history
\* Saque.registrar that records the withdrawal whatever sacar returned
Saque_registrar_sempre(a, s, h, valor, dia) ==
    LET r == Sacar(a, s, h, valor)
    IN  [saldo |-> r.saldo,
         transacoes |-> Historico_adicionar_transacao(h, "Saque", valor, dia),
         motivo |-> r.motivo]

Saque_registrar(a, s, h, valor, dia) ==
    LET r == Sacar(a, s, h, valor)
    IN  [saldo |-> r.saldo,
         transacoes |-> IF r.sucesso
                        THEN Historico_adicionar_transacao(h, "Saque", valor, dia)
                        ELSE h,
         motivo |-> r.motivo]

\* Deposito.registrar that records the deposit whatever depositar returned
Deposito_registrar_sempre(a, s, h, valor, dia) ==
    LET r == Depositar(a, s, h, valor)
    IN  [saldo |-> r.saldo,
         transacoes |-> Historico_adicionar_transacao(h, "Deposito", valor, dia),
         motivo |-> r.motivo]

Deposito_registrar(a, s, h, valor, dia) ==
    LET r == Depositar(a, s, h, valor)
    IN  [saldo |-> r.saldo,
         transacoes |-> IF r.sucesso
                        THEN Historico_adicionar_transacao(h, "Deposito", valor, dia)
                        ELSE h,
         motivo |-> r.motivo]

Registrar(tipo, a, s, h, valor, dia) ==
    IF tipo = "Saque" THEN Saque_registrar(a, s, h, valor, dia)
    ELSE Deposito_registrar(a, s, h, valor, dia)

(* ------------------------------ Cliente ------------------------------- *)
\* dia1: the date read by transacoes_do_dia; dia2: the date read when the
\* record is stamped (the clock may pass midnight in between)
\* realizar_transacao with "> 2" for ">= 2"
Cliente_realizar_transacao_maior(tipo, a, s, h, valor, dia1, dia2) ==
    IF Len(Historico_transacoes_do_dia(h, dia1)) > LIMITE_TRANSACOES_DIA
    THEN [saldo |-> s, transacoes |-> h, motivo |-> "DailyLimitExceeded"]
    ELSE Registrar(tipo, a, s, h, valor, dia2)

\* realizar_transacao without the daily limit
Cliente_realizar_transacao_sem_limite(tipo, a, s, h, valor, dia1, dia2) ==
    Registrar(tipo, a, s, h, valor, dia2)

Cliente_realizar_transacao(tipo, a, s, h, valor, dia1, dia2) ==
    IF Len(Historico_transacoes_do_dia(h, dia1)) >= LIMITE_TRANSACOES_DIA
    THEN [saldo |-> s, transacoes |-> h, motivo |-> "DailyLimitExceeded"]
    ELSE Registrar(tipo, a, s, h, valor, dia2)

Cliente_adicionar_conta(cs, a) == Append(cs, a)

(* ------------------------------ the menu ------------------------------ *)
\* a PessoaFisica as the menu sees it: its cpf and the list of its accounts
PessoaFisica(cpf) == [cpf |-> cpf, contas |-> <<>>]

\* filtrar_cliente that finds nobody
filtrar_cliente_ninguem(cpf, cs) == 0

\* the position in cs of the first customer whose cpf equals the one
\* given; 0 stands for the None returned when there is no such customer
filtrar_cliente(cpf, cs) ==
    LET clientes_filtrados == {i \in 1..Len(cs) : cs[i].cpf = cpf}
    IN  IF clientes_filtrados = {} THEN 0
        ELSE CHOOSE i \in clientes_filtrados :
                \A j \in clientes_filtrados : i <= j

\* recuperar_conta_cliente that returns the last account
recuperar_conta_cliente_ultima(cliente) ==
    IF cliente.contas = <<>> THEN 0 ELSE cliente.contas[Len(cliente.contas)]

\* the first account of the customer; 0 stands for None
recuperar_conta_cliente(cliente) ==
    IF cliente.contas = <<>> THEN 0 ELSE cliente.contas[1]

\* the directory after criar_cliente has read cpf
criar_cliente(cs, cpf) ==
    IF filtrar_cliente(cpf, cs) # 0 THEN cs
    ELSE Append(cs, PessoaFisica(cpf))

\* what exibir_extrato prints: every record of gerar_relatorio() and the
\* balance
RECURSIVE Consome(_, _)
Consome(h, g) ==
    LET g2 == Historico_gerar_relatorio(h, g)
    IN  IF g2.fim THEN g2.saida ELSE Consome(h, g2)

Extrato(a, s, h) == [extrato |-> Consome(h, NovoGerador(a, None)), saldo |-> s]

(* ------------------------------ actions ------------------------------- *)
\* no call has been made since control returned to the caller
Nenhuma ==
    [op |-> "-", cliente |-> 0, conta |-> 0, tipo |-> "-", valor |-> 0,
     motivo |-> "-", dia |-> 0, saldo_antes |-> <<>>, transacoes_antes |-> <<>>,
     cpf |-> "-", clientes_antes |-> <<>>, impresso |-> <<>>]

\* what the last call was, what it reported, and the date, the balances,
\* the histories and the directory when it was made
Observa(op, c, a, tipo, valor, motivo) ==
    [op |-> op, cliente |-> c, conta |-> a, tipo |-> tipo, valor |-> valor,
     motivo |-> motivo, dia |-> agora, saldo_antes |-> saldo,
     transacoes_antes |-> transacoes,
     cpf |-> "-", clientes_antes |-> clientes, impresso |-> <<>>]

TotalRegistros == Len(transacoes[1]) + Len(transacoes[2])

DentroDosLimites(a, r) ==
    /\ r.saldo <= MaxSaldo
    /\ TotalRegistros - Len(transacoes[a]) + Len(r.transacoes) <= MaxHist

\* the accounts share no state: the account-level specification exercises
\* one account per behaviour, the customer-level one exercises both together
SobTeste(a) == \A b \in Contas \ {a} : saldo[b] = 0 /\ transacoes[b] = <<>>

Init ==
    /\ saldo = [a \in TodasContas |-> 0]
    /\ transacoes = [a \in TodasContas |-> <<>>]
    /\ contas = [c \in Clientes |-> <<>>]
    /\ agora = 1
    /\ ultima = Nenhuma
    /\ clientes = <<>>
    /\ contas_criadas = <<>>
    /\ geradores = <<>>

\* conta.sacar(valor) called directly
ChamaSacar(a, valor) ==
    /\ ultima = Nenhuma
    /\ SobTeste(a)
    /\ \E r \in {Sacar(a, saldo[a], transacoes[a], valor)} :
        /\ saldo' = [saldo EXCEPT ![a] = r.saldo]
        /\ ultima' = Observa("sacar", 0, a, "Saque", valor, r.motivo)
        /\ UNCHANGED <<transacoes, contas, agora>>
        /\ UNCHANGED <<clientes, contas_criadas, geradores>>

\* conta.depositar(valor) called directly
ChamaDepositar(a, valor) ==
    /\ ultima = Nenhuma
    /\ SobTeste(a)
    /\ \E r \in {Depositar(a, saldo[a], transacoes[a], valor)} :
        /\ r.saldo <= MaxSaldo
        /\ saldo' = [saldo EXCEPT ![a] = r.saldo]
        /\ ultima' = Observa("depositar", 0, a, "Deposito", valor, r.motivo)
        /\ UNCHANGED <<transacoes, contas, agora>>
        /\ UNCHANGED <<clientes, contas_criadas, geradores>>

\* Saque(valor).registrar(conta) / Deposito(valor).registrar(conta)
ChamaRegistrar(tipo, a, valor) ==
    /\ ultima = Nenhuma
    /\ SobTeste(a)
    /\ \E r \in {Registrar(tipo, a, saldo[a], transacoes[a], valor, agora)} :
        /\ DentroDosLimites(a, r)
        /\ saldo' = [saldo EXCEPT ![a] = r.saldo]
        /\ transacoes' = [transacoes EXCEPT ![a] = r.transacoes]
        /\ ultima' = Observa("registrar", 0, a, tipo, valor, r.motivo)
        /\ UNCHANGED <<contas, agora>>
        /\ UNCHANGED <<clientes, contas_criadas, geradores>>

\* cliente.realizar_transacao(conta, transacao); dia2 is the date when the
\* record is stamped
ChamaRealizarTransacao(c, tipo, a, valor, dia2) ==
    /\ ultima = Nenhuma
    /\ \E r \in {Cliente_realizar_transacao(tipo, a, saldo[a], transacoes[a],
                                               valor, agora, dia2)} :
        /\ DentroDosLimites(a, r)
        /\ saldo' = [saldo EXCEPT ![a] = r.saldo]
        /\ transacoes' = [transacoes EXCEPT ![a] = r.transacoes]
        /\ agora' = IF r.motivo = "ok" THEN dia2 ELSE agora
        /\ ultima' = Observa("realizar_transacao", c, a, tipo, valor, r.motivo)
        /\ UNCHANGED contas
        /\ UNCHANGED <<clientes, contas_criadas, geradores>>

\* cliente.adicionar_conta(conta)
ChamaAdicionarConta(c, a) ==
    /\ ultima = Nenhuma
    /\ Len(contas[c]) < MaxContas
    /\ contas' = [contas EXCEPT ![c] = Cliente_adicionar_conta(contas[c], a)]
    /\ UNCHANGED <<saldo, transacoes, agora, ultima>>
    /\ UNCHANGED <<clientes, contas_criadas, geradores>>

\* midnight (UTC) passes between two calls
Meianoite ==
    /\ ultima = Nenhuma
    /\ agora < MaxDias
    /\ agora' = agora + 1
    /\ UNCHANGED <<saldo, transacoes, contas, ultima>>
    /\ UNCHANGED <<clientes, contas_criadas, geradores>>

\* the call has returned and its report has been read
Retorna ==
    /\ ultima # Nenhuma
    /\ ultima' = Nenhuma
    /\ UNCHANGED <<saldo, transacoes, contas, agora>>
    /\ UNCHANGED <<clientes, contas_criadas, geradores>>

Primitivas ==
    \/ \E a \in Contas, v \in Valores : ChamaSacar(a, v)
    \/ \E a \in Contas, v \in Valores : ChamaDepositar(a, v)

Transacoes ==
    \E t \in Tipos, a \in Contas, v \in Valores : ChamaRegistrar(t, a, v)

ViaCliente ==
    \/ \E c \in Clientes, t \in Tipos, a \in Contas, v \in Valores :
         \E dia2 \in {d \in {agora, agora + 1} : d <= MaxDias} :
            ChamaRealizarTransacao(c, t, a, v, dia2)
    \/ \E c \in Clientes, a \in Contas : ChamaAdicionarConta(c, a)

\* the account level: the primitives and the transactions, on one account
Next == Primitivas \/ Transacoes \/ Meianoite \/ Retorna
Spec == Init /\ [][Next]_vars

\* every operation goes through Cliente.realizar_transacao
NextCliente == ViaCliente \/ Meianoite \/ Retorna
SpecCliente == Init /\ [][NextCliente]_vars

\* every operation goes through Cliente.realizar_transacao, on accounts the
\* caller holds (no list of accounts is kept)
NextPortao ==
    \/ \E c \in Clientes, t \in Tipos, a \in Contas, v \in Valores :
         \E dia2 \in {d \in {agora, agora + 1} : d <= MaxDias} :
            ChamaRealizarTransacao(c, t, a, v, dia2)
    \/ Meianoite
    \/ Retorna
SpecPortao == Init /\ [][NextPortao]_vars

\* the ledger level: every balance change goes through Transacao.registrar,
\* called directly or through Cliente.realizar_transacao; the balances are
\* then determined by the histories, which leaves room for longer ones
NoLivro(a, r) ==
    /\ r.saldo <= MaxSaldo
    /\ TotalRegistros - Len(transacoes[a]) + Len(r.transacoes) <= MaxLivro

\* Saque(valor).registrar(conta) / Deposito(valor).registrar(conta)
RegistraNoLivro(tipo, a, valor) ==
    /\ ultima = Nenhuma
    /\ \E r \in {Registrar(tipo, a, saldo[a], transacoes[a], valor, agora)} :
        /\ NoLivro(a, r)
        /\ saldo' = [saldo EXCEPT ![a] = r.saldo]
        /\ transacoes' = [transacoes EXCEPT ![a] = r.transacoes]
        /\ ultima' = Observa("registrar", 0, a, tipo, valor, r.motivo)
        /\ UNCHANGED <<contas, agora>>
        /\ UNCHANGED <<clientes, contas_criadas, geradores>>

\* cliente.realizar_transacao(conta, transacao)
RealizaNoLivro(c, tipo, a, valor, dia2) ==
    /\ ultima = Nenhuma
    /\ \E r \in {Cliente_realizar_transacao(tipo, a, saldo[a], transacoes[a],
                                               valor, agora, dia2)} :
        /\ NoLivro(a, r)
        /\ saldo' = [saldo EXCEPT ![a] = r.saldo]
        /\ transacoes' = [transacoes EXCEPT ![a] = r.transacoes]
        /\ agora' = IF r.motivo = "ok" THEN dia2 ELSE agora
        /\ ultima' = Observa("realizar_transacao", c, a, tipo, valor, r.motivo)
        /\ UNCHANGED contas
        /\ UNCHANGED <<clientes, contas_criadas, geradores>>

NextRegistrar ==
    \/ \E t \in Tipos, a \in Contas, v \in Valores : RegistraNoLivro(t, a, v)
    \/ \E c \in Clientes, t \in Tipos, a \in Contas, v \in Valores :
         \E dia2 \in {d \in {agora, agora + 1} : d <= MaxDias} :
            RealizaNoLivro(c, t, a, v, dia2)
    \/ Meianoite
    \/ Retorna
SpecRegistrar == Init /\ [][NextRegistrar]_vars

\* the report level: the accepted transactions of the checking account and
\* the generators of gerar_relatorio on its history
\* conta.historico.gerar_relatorio(tipo_transacao=f)
ChamaGerarRelatorio(a, f) ==
    /\ ultima = Nenhuma
    /\ SobTeste(a)
    /\ Len(geradores) < MaxGeradores
    /\ geradores' = Append(geradores, NovoGerador(a, f))
    /\ UNCHANGED <<saldo, transacoes, contas, agora, ultima>>
    /\ UNCHANGED <<clientes, contas_criadas>>

\* next(g) on the k-th generator
ChamaNext(k) ==
    /\ ultima = Nenhuma
    /\ geradores' =
         [geradores EXCEPT
            ![k] = Historico_gerar_relatorio(transacoes[geradores[k].conta],
                                             geradores[k])]
    /\ UNCHANGED <<saldo, transacoes, contas, agora, ultima>>
    /\ UNCHANGED <<clientes, contas_criadas>>

NextRelatorio ==
    \/ \E t \in Tipos, v \in Valores :
         /\ ChamaRegistrar(t, 1, v)
         /\ ultima'.motivo = "ok"
         /\ Len(transacoes'[1]) <= MaxRelatorio
    \/ \E f \in Filtros : ChamaGerarRelatorio(1, f)
    \/ \E k \in 1..Len(geradores) : ChamaNext(k)
    \/ Retorna
SpecRelatorio == Init /\ [][NextRelatorio]_vars

\* the menu level: the entry points of main
RECURSIVE RegistrosEm(_)
RegistrosEm(S) ==
    IF S = {} THEN 0
    ELSE LET a == CHOOSE x \in S : TRUE
         IN  Len(transacoes[a]) + RegistrosEm(S \ {a})

NoMenu(a, r) ==
    /\ r.saldo <= MaxSaldo
    /\ RegistrosEm(ContasMenu \ {a}) + Len(r.transacoes) <= MaxMenu

ObservaMenu(op, cpf, c, a, tipo, valor, motivo, impresso) ==
    [Observa(op, c, a, tipo, valor, motivo)
       EXCEPT !.cpf = cpf, !.impresso = impresso]

\* the body of depositar and of sacar, which differ in the transaction only
Movimenta(op, tipo, cpf, valor, dia2) ==
    /\ ultima = Nenhuma
    /\ LET cliente == filtrar_cliente(cpf, clientes)
           conta == IF cliente = 0 THEN 0
                    ELSE recuperar_conta_cliente(clientes[cliente])
       IN  IF cliente = 0
           THEN /\ ultima' = ObservaMenu(op, cpf, 0, 0, tipo, valor,
                                         "CustomerNotFound", <<>>)
                /\ UNCHANGED <<saldo, transacoes, agora>>
           ELSE IF conta = 0
           THEN /\ ultima' = ObservaMenu(op, cpf, cliente, 0, tipo, valor,
                                         "AccountNotFound", <<>>)
                /\ UNCHANGED <<saldo, transacoes, agora>>
           ELSE \E r \in {Cliente_realizar_transacao(tipo, conta, saldo[conta],
                              transacoes[conta], valor, agora, dia2)} :
                /\ NoMenu(conta, r)
                /\ saldo' = [saldo EXCEPT ![conta] = r.saldo]
                /\ transacoes' = [transacoes EXCEPT ![conta] = r.transacoes]
                /\ agora' = IF r.motivo = "ok" THEN dia2 ELSE agora
                /\ ultima' = ObservaMenu(op, cpf, cliente, conta, tipo, valor,
                                         r.motivo, <<>>)
    /\ UNCHANGED <<contas, clientes, contas_criadas, geradores>>

\* depositar(clientes)
MenuDepositar(cpf, valor, dia2) ==
    Movimenta("menu_depositar", "Deposito", cpf, valor, dia2)

\* sacar(clientes)
MenuSacar(cpf, valor, dia2) ==
    Movimenta("menu_sacar", "Saque", cpf, valor, dia2)

\* exibir_extrato(clientes)
MenuExibirExtrato(cpf) ==
    /\ ultima = Nenhuma
    /\ LET cliente == filtrar_cliente(cpf, clientes)
           conta == IF cliente = 0 THEN 0
                    ELSE recuperar_conta_cliente(clientes[cliente])
       IN  ultima' =
             IF cliente = 0
             THEN ObservaMenu("exibir_extrato", cpf, 0, 0, "-", 0,
                              "CustomerNotFound", <<>>)
             ELSE IF conta = 0
             THEN ObservaMenu("exibir_extrato", cpf, cliente, 0, "-", 0,
                              "AccountNotFound", <<>>)
             ELSE ObservaMenu("exibir_extrato", cpf, cliente, conta, "-", 0,
                              "ok",
                              Extrato(conta, saldo[conta], transacoes[conta]))
    /\ UNCHANGED <<saldo, transacoes, contas, agora>>
    /\ UNCHANGED <<clientes, contas_criadas, geradores>>

\* criar_cliente(clientes)
MenuCriarCliente(cpf) ==
    /\ ultima = Nenhuma
    /\ \E cs \in {criar_cliente(clientes, cpf)} :
        /\ Len(cs) <= MaxClientes
        /\ clientes' = cs
        /\ ultima' = ObservaMenu("criar_cliente", cpf, 0, 0, "-", 0,
                                 IF filtrar_cliente(cpf, clientes) # 0
                                 THEN "CustomerExists" ELSE "ok", <<>>)
    /\ UNCHANGED <<saldo, transacoes, contas, agora>>
    /\ UNCHANGED <<contas_criadas, geradores>>

\* criar_conta(numero_conta, clientes, contas) with
\* numero_conta = len(contas) + 1
MenuCriarConta(cpf) ==
    /\ ultima = Nenhuma
    /\ LET cliente == filtrar_cliente(cpf, clientes)
           conta == ContaDeNumero(Len(contas_criadas) + 1)
       IN  IF cliente = 0
           THEN /\ ultima' = ObservaMenu("criar_conta", cpf, 0, 0, "-", 0,
                                         "CustomerNotFound", <<>>)
                /\ UNCHANGED <<saldo, transacoes, clientes, contas_criadas>>
           ELSE /\ Len(contas_criadas) < MaxContasMenu
                /\ saldo' = [saldo EXCEPT ![conta] = 0]
                /\ transacoes' = [transacoes EXCEPT ![conta] = <<>>]
                /\ contas_criadas' = Append(contas_criadas, conta)
                /\ clientes' = [clientes EXCEPT
                                  ![cliente].contas = Append(@, conta)]
                /\ ultima' = ObservaMenu("criar_conta", cpf, cliente, conta,
                                         "-", 0, "ok", <<>>)
    /\ UNCHANGED <<contas, agora, geradores>>

NextMenu ==
    \/ \E cpf \in CPFs : MenuCriarCliente(cpf)
    \/ \E cpf \in CPFs : MenuCriarConta(cpf)
    \/ \E cpf \in CPFs, v \in Valores :
         \E dia2 \in {d \in {agora, agora + 1} : d <= MaxDias} :
            MenuDepositar(cpf, v, dia2)
    \/ \E cpf \in CPFs, v \in Valores :
         \E dia2 \in {d \in {agora, agora + 1} : d <= MaxDias} :
            MenuSacar(cpf, v, dia2)
    \/ \E cpf \in CPFs : MenuExibirExtrato(cpf)
    \/ Meianoite
    \/ Retorna
SpecMenu == Init /\ [][NextMenu]_vars

TypeOK ==
    /\ saldo \in [TodasContas -> Int]
    /\ agora \in 1..MaxDias
    /\ TotalRegistros <= MaxLivro
    /\ RegistrosEm(ContasMenu) <= MaxMenu
    /\ Len(clientes) <= MaxClientes
    /\ Len(contas_criadas) <= MaxContasMenu
    /\ Len(geradores) <= MaxGeradores

(* ------------------------- observing the calls ------------------------ *)
\* the account the last call was made on, as it was before the call
Alvo == ultima.conta
SaldoAntes == ultima.saldo_antes[Alvo]
HistAntes == ultima.transacoes_antes[Alvo]
Aceita == ultima.motivo = "ok"
\* the last call was a withdrawal / a deposit made below the customer gate
FoiSaque == ultima.op \in {"sacar", "registrar"} /\ ultima.tipo = "Saque"
FoiDeposito == ultima.op \in {"depositar", "registrar"} /\ ultima.tipo = "Deposito"
FoiViaCliente == ultima.op = "realizar_transacao"

\* the date as the records of each day carry it
Carimbo == [n \in 0..(MaxDias + 1) |-> Strftime(DataDe(n))]
\* the records of h written on day dia
RegistrosDoDia(h, dia) ==
    Cardinality({i \in 1..Len(h) : h[i].data = Carimbo[dia]})
\* the records of h of kind tipo
RegistrosDoTipo(h, tipo) == Cardinality({i \in 1..Len(h) : h[i].tipo = tipo})
\* a record of kind tipo and amount valor written on day dia
Registro(tipo, valor, dia) ==
    [tipo |-> tipo, valor |-> valor, data |-> Strftime(DataDe(dia))]

(* ------------------------------- C1 ----------------------------------- *)
\* C1: in every state reached from new accounts by deposit and withdraw
\* calls with any amounts, on the base and on the checking account,
\* accepted or rejected, the balance is >= 0.
C1_SaldoNaoNegativo == \A a \in Contas : saldo[a] >= 0

\* a withdrawal of the whole balance was accepted and left the balance at 0
C1_Witness ==
    /\ FoiSaque /\ Aceita
    /\ SaldoAntes > 0 /\ ultima.valor = SaldoAntes /\ saldo[Alvo] = 0
(* ------------------------------- C2 ----------------------------------- *)
\* what Transacao.registrar does with the last call's transaction on the
\* account as it was before the call, stamping with the current date
Delegada == Registrar(ultima.tipo, Alvo, SaldoAntes, HistAntes, ultima.valor, agora)
HojeNaConta == RegistrosDoDia(HistAntes, ultima.dia)

\* C2: realizar_transacao rejects without calling registrar (balance and
\* history unchanged) iff the history of the account already holds 2 or
\* more records dated today; otherwise the outcome is that of
\* transacao.registrar(conta).  On a new checking account: deposit 1000 is
\* accepted (balance 1000, 1 record), withdraw 500 is accepted (balance 500,
\* 2 records), a further withdraw 500 that day is rejected with the
\* daily-limit report (balance 500, 2 records).
C2_LimiteDiario ==
    FoiViaCliente =>
      /\ (ultima.motivo = "DailyLimitExceeded") <=> (HojeNaConta >= 2)
      /\ HojeNaConta >= 2 =>
           saldo = ultima.saldo_antes /\ transacoes = ultima.transacoes_antes
      /\ HojeNaConta < 2 =>
           /\ ultima.motivo = Delegada.motivo
           /\ saldo[Alvo] = Delegada.saldo
           /\ transacoes[Alvo] = Delegada.transacoes
      /\ (Classe(Alvo) = "ContaCorrente" /\ HistAntes = <<>> /\ SaldoAntes = 0
          /\ ultima.tipo = "Deposito" /\ ultima.valor = 1000) =>
           Aceita /\ saldo[Alvo] = 1000 /\ Len(transacoes[Alvo]) = 1
      /\ (Classe(Alvo) = "ContaCorrente"
          /\ HistAntes = <<Registro("Deposito", 1000, ultima.dia)>>
          /\ ultima.tipo = "Saque" /\ ultima.valor = 500) =>
           Aceita /\ saldo[Alvo] = 500 /\ Len(transacoes[Alvo]) = 2
      /\ (Classe(Alvo) = "ContaCorrente"
          /\ HistAntes = <<Registro("Deposito", 1000, ultima.dia),
                           Registro("Saque", 500, ultima.dia)>>
          /\ ultima.tipo = "Saque" /\ ultima.valor = 500) =>
           /\ ultima.motivo = "DailyLimitExceeded"
           /\ saldo[Alvo] = 500 /\ Len(transacoes[Alvo]) = 2

\* the third call of the scenario has been rejected
C2_Witness ==
    /\ FoiViaCliente /\ Classe(Alvo) = "ContaCorrente"
    /\ ultima.tipo = "Saque" /\ ultima.valor = 500
    /\ ultima.motivo = "DailyLimitExceeded"
    /\ transacoes[Alvo] = <<Registro("Deposito", 1000, agora),
                            Registro("Saque", 500, agora)>>
    /\ saldo[Alvo] = 500

(* ------------------------------- C3 ----------------------------------- *)
ContasDoCliente(c) == {contas[c][i] : i \in 1..Len(contas[c])}

RECURSIVE SomaDoDia(_)
SomaDoDia(S) ==
    IF S = {} THEN 0
    ELSE LET a == CHOOSE x \in S : TRUE
         IN  RegistrosDoDia(ultima.transacoes_antes[a], ultima.dia)
             + SomaDoDia(S \ {a})

\* the operations the customer of the last call had completed that day on
\* the accounts of the customer, before the call
HojeDoCliente == SomaDoDia(ContasDoCliente(ultima.cliente))

\* C3 as stated: once a customer has completed 2 operations today on any
\* one or any mix of their accounts, a 3rd operation requested that day
\* through realizar_transacao on any of their accounts (here one the
\* account itself accepts) is rejected with DailyLimitExceeded.
C3_PorCliente ==
    (/\ FoiViaCliente
     /\ Alvo \in ContasDoCliente(ultima.cliente)
     /\ HojeDoCliente >= 2
     /\ Delegada.motivo = "ok")
    => ultima.motivo = "DailyLimitExceeded"

\* C3 amended: the cap is per account.  An operation a customer requests
\* on one of their accounts is rejected with DailyLimitExceeded iff the
\* history of that account holds 2 or more records dated today; what the
\* customer completed that day on other accounts does not count.
C3_PorConta ==
    (FoiViaCliente /\ Alvo \in ContasDoCliente(ultima.cliente)) =>
      /\ HojeNaConta >= 2 => ultima.motivo = "DailyLimitExceeded"
      /\ (HojeNaConta < 2 /\ HojeDoCliente >= 2) =>
           ultima.motivo = Delegada.motivo

\* a customer who had completed 2 operations that day has a 3rd accepted,
\* on another of their accounts
C3_Witness ==
    /\ FoiViaCliente /\ Alvo \in ContasDoCliente(ultima.cliente)
    /\ HojeDoCliente >= 2 /\ HojeNaConta = 0
    /\ Aceita /\ Len(transacoes[Alvo]) = 1
(* ------------------------------- C4 ----------------------------------- *)
Corrente == Classe(Alvo) = "ContaCorrente"
SaquesAntes == RegistrosDoTipo(HistAntes, "Saque")
Intacta == saldo[Alvo] = SaldoAntes /\ transacoes[Alvo] = HistAntes

\* C4 as stated: a checking-account withdrawal is rejected with
\* WithdrawalCountExceeded iff the number of Withdrawal records already in
\* the history is >= the count ceiling, whatever its amount.
C4_SoContagem ==
    (FoiSaque /\ Corrente) =>
      ((ultima.motivo = "WithdrawalCountExceeded") <=> (SaquesAntes >= LIMITE_SAQUES))

\* C4 amended: a checking-account withdrawal is rejected with
\* WithdrawalCountExceeded iff its amount is <= the withdrawal ceiling and
\* the number of Withdrawal records already in the history (of any date) is
\* >= the count ceiling; once that number has reached the count ceiling
\* every withdrawal is rejected whatever its amount and the balance, with
\* WithdrawalLimitExceeded when the amount is above the withdrawal ceiling.
C4_Contagem ==
    (FoiSaque /\ Corrente) =>
      /\ (ultima.motivo = "WithdrawalCountExceeded")
           <=> (ultima.valor <= LIMITE /\ SaquesAntes >= LIMITE_SAQUES)
      /\ SaquesAntes >= LIMITE_SAQUES =>
           /\ Intacta
           /\ ultima.motivo = IF ultima.valor > LIMITE
                              THEN "WithdrawalLimitExceeded"
                              ELSE "WithdrawalCountExceeded"

\* with as many withdrawals recorded as the count ceiling, none of them
\* today, a withdrawal the balance covers is rejected for the count
C4_Witness ==
    /\ FoiSaque /\ Corrente
    /\ SaquesAntes = LIMITE_SAQUES
    /\ RegistrosDoDia(HistAntes, ultima.dia) = 0
    /\ ultima.valor > 0 /\ ultima.valor <= SaldoAntes
    /\ ultima.motivo = "WithdrawalCountExceeded"

(* ------------------------------- C5 ----------------------------------- *)
\* C5: ContaCorrente.sacar(amount) is rejected with WithdrawalLimitExceeded
\* iff amount > the withdrawal ceiling, for every balance and every number
\* of earlier withdrawals; an amount equal to the ceiling is never rejected
\* for that reason.
C5_LimiteDoSaque ==
    (FoiSaque /\ Corrente) =>
      ((ultima.motivo = "WithdrawalLimitExceeded") <=> (ultima.valor > LIMITE))

\* an amount above the ceiling that the balance covers was rejected
C5_Witness ==
    /\ FoiSaque /\ Corrente
    /\ ultima.valor > LIMITE /\ ultima.valor <= SaldoAntes
    /\ ultima.motivo = "WithdrawalLimitExceeded"
    /\ saldo[Alvo] = SaldoAntes

(* ------------------------------- C6 ----------------------------------- *)
\* C6 as stated: on every account, base or checking, a withdrawal of more
\* than the balance leaves the balance unchanged and reports
\* InsufficientFunds.
C6_SemSaldo ==
    (FoiSaque /\ ultima.valor > SaldoAntes) =>
      /\ saldo[Alvo] = SaldoAntes
      /\ ultima.motivo = "InsufficientFunds"

\* C6 amended: a withdrawal of more than the balance leaves the balance
\* unchanged on every account; it reports InsufficientFunds on a base
\* account, and on a checking account unless one of the two ceilings
\* rejects it first: WithdrawalLimitExceeded when the amount is above the
\* withdrawal ceiling, else WithdrawalCountExceeded when the count ceiling
\* is reached.
C6_SemSaldoOuTeto ==
    (FoiSaque /\ ultima.valor > SaldoAntes) =>
      /\ saldo[Alvo] = SaldoAntes
      /\ ultima.motivo =
           IF Corrente /\ ultima.valor > LIMITE THEN "WithdrawalLimitExceeded"
           ELSE IF Corrente /\ SaquesAntes >= LIMITE_SAQUES
           THEN "WithdrawalCountExceeded"
           ELSE "InsufficientFunds"

\* a checking account with a positive balance refused, for lack of funds,
\* a withdrawal within both ceilings
C6_Witness ==
    /\ FoiSaque /\ Corrente
    /\ ultima.valor > SaldoAntes /\ ultima.valor <= LIMITE
    /\ SaquesAntes > 0 /\ SaquesAntes < LIMITE_SAQUES
    /\ ultima.motivo = "InsufficientFunds"
    /\ saldo[Alvo] = SaldoAntes

(* ------------------------------- C7 ----------------------------------- *)
\* C7: a deposit succeeds and increases the balance by exactly the amount
\* iff amount > 0; for every amount <= 0 it reports InvalidAmount, the
\* balance is unchanged and no history record is added.
C7_Deposito ==
    FoiDeposito =>
      /\ Aceita <=> ultima.valor > 0
      /\ Aceita => saldo[Alvo] = SaldoAntes + ultima.valor
      /\ ultima.valor <= 0 => ultima.motivo = "InvalidAmount" /\ Intacta

\* a negative amount was refused on an account that holds money and records
C7_Witness ==
    /\ FoiDeposito /\ ultima.valor < 0
    /\ SaldoAntes > 0 /\ Len(HistAntes) > 0
    /\ ultima.motivo = "InvalidAmount"

(* ------------------------------- C8 ----------------------------------- *)
\* C8: the base Conta.sacar(amount) has three outcomes: InsufficientFunds
\* iff amount > balance; otherwise InvalidAmount iff amount <= 0; otherwise
\* (0 < amount <= balance, the whole balance included) success, the new
\* balance being the old one minus amount.
C8_SaqueBase ==
    (FoiSaque /\ ~Corrente) =>
      /\ (ultima.motivo = "InsufficientFunds") <=> (ultima.valor > SaldoAntes)
      /\ (ultima.motivo = "InvalidAmount")
           <=> (ultima.valor <= SaldoAntes /\ ultima.valor <= 0)
      /\ Aceita <=> (0 < ultima.valor /\ ultima.valor <= SaldoAntes)
      /\ Aceita => saldo[Alvo] = SaldoAntes - ultima.valor
      /\ ~Aceita => saldo[Alvo] = SaldoAntes

\* the base account paid out its whole balance, above the checking ceiling
C8_Witness ==
    /\ FoiSaque /\ ~Corrente /\ Aceita
    /\ ultima.valor = SaldoAntes /\ ultima.valor > LIMITE
    /\ saldo[Alvo] = 0

(* ------------------------------- C9 ----------------------------------- *)
\* C9: ContaCorrente.sacar tests the amount ceiling, then the count
\* ceiling, then applies the base rule: amount > ceiling reports
\* WithdrawalLimitExceeded even with the count ceiling reached; amount <=
\* ceiling with the count ceiling reached reports WithdrawalCountExceeded
\* even if the amount exceeds the balance or is <= 0; when both tests pass
\* the result and the balance are those of the base Conta.sacar.
C9_Ordem ==
    (FoiSaque /\ Corrente) =>
      LET base == Conta_sacar(SaldoAntes, ultima.valor)
      IN  IF ultima.valor > LIMITE
          THEN ultima.motivo = "WithdrawalLimitExceeded" /\ saldo[Alvo] = SaldoAntes
          ELSE IF SaquesAntes >= LIMITE_SAQUES
          THEN ultima.motivo = "WithdrawalCountExceeded" /\ saldo[Alvo] = SaldoAntes
          ELSE ultima.motivo = base.motivo /\ saldo[Alvo] = base.saldo

\* with the count ceiling reached, an amount above the withdrawal ceiling
\* was rejected for the amount
C9_Witness ==
    /\ FoiSaque /\ Corrente
    /\ SaquesAntes >= LIMITE_SAQUES /\ ultima.valor > LIMITE
    /\ ultima.motivo = "WithdrawalLimitExceeded"

(* ------------------------------- C10 ---------------------------------- *)
\* C10: a deposit or withdrawal accepted through Transacao.registrar
\* appends exactly one record at the end of the history of the account,
\* with the kind and the amount of the transaction; a rejected one adds
\* none.
C10_UmRegistro ==
    ultima.op = "registrar" =>
      IF Aceita
      THEN /\ Len(transacoes[Alvo]) = Len(HistAntes) + 1
           /\ SubSeq(transacoes[Alvo], 1, Len(HistAntes)) = HistAntes
           /\ transacoes[Alvo][Len(transacoes[Alvo])].tipo = ultima.tipo
           /\ transacoes[Alvo][Len(transacoes[Alvo])].valor = ultima.valor
      ELSE transacoes[Alvo] = HistAntes

\* a withdrawal was recorded after a deposit of another amount
C10_Witness ==
    /\ ultima.op = "registrar" /\ Aceita /\ ultima.tipo = "Saque"
    /\ Len(HistAntes) >= 1
    /\ HistAntes[Len(HistAntes)].tipo = "Deposito"
    /\ HistAntes[Len(HistAntes)].valor # ultima.valor
    /\ Len(transacoes[Alvo]) = Len(HistAntes) + 1

(* ------------------------------- C11 ---------------------------------- *)
Rejeicoes ==
    {"InvalidAmount", "InsufficientFunds", "WithdrawalLimitExceeded",
     "WithdrawalCountExceeded", "DailyLimitExceeded"}
Rejeitada == ultima # Nenhuma /\ ultima.motivo \in Rejeicoes

\* C11: an operation that is rejected, for any of the five reasons, leaves
\* the balance and the history of the targeted account and of every other
\* account as they were; in particular the number of records dated today
\* and the number of Withdrawal records of the targeted account are the
\* same as before the attempt.
C11_RejeicaoSemEfeito ==
    /\ ultima # Nenhuma => (Aceita \/ Rejeitada)
    /\ Rejeitada =>
         /\ saldo = ultima.saldo_antes
         /\ transacoes = ultima.transacoes_antes
         /\ RegistrosDoDia(transacoes[Alvo], ultima.dia) = HojeNaConta
         /\ RegistrosDoTipo(transacoes[Alvo], "Saque") = SaquesAntes

\* a withdrawal on the checking account was rejected by the daily limit
\* while the other account holds a balance and records of its own
C11_Witness ==
    /\ Rejeitada /\ ultima.motivo = "DailyLimitExceeded"
    /\ Corrente /\ ultima.tipo = "Saque" /\ SaldoAntes >= ultima.valor
    /\ \E b \in Contas \ {Alvo} : saldo[b] > 0 /\ transacoes[b] # <<>>

(* ------------------------------- C16 ---------------------------------- *)
\* the sum of the amounts of the records of h of kind tipo
RECURSIVE SomaDoTipo(_, _)
SomaDoTipo(h, tipo) ==
    IF h = <<>> THEN 0
    ELSE (IF Head(h).tipo = tipo THEN Head(h).valor ELSE 0)
         + SomaDoTipo(Tail(h), tipo)

\* C16: when every balance change goes through Deposito.registrar or
\* Saque.registrar, called directly or through realizar_transacao, the
\* balance of every account equals the sum of the amounts of the Deposit
\* records of its history minus the sum of those of its Withdrawal records.
C16_Conservacao ==
    \A a \in Contas :
        saldo[a] = SomaDoTipo(transacoes[a], "Deposito")
                   - SomaDoTipo(transacoes[a], "Saque")

\* an accepted withdrawal left a positive balance on an account that holds
\* at least two deposits and two withdrawals
C16_Witness ==
    /\ ultima.op \in {"registrar", "realizar_transacao"}
    /\ ultima.tipo = "Saque" /\ Aceita /\ saldo[Alvo] > 0
    /\ RegistrosDoTipo(transacoes[Alvo], "Deposito") >= 2
    /\ RegistrosDoTipo(transacoes[Alvo], "Saque") >= 2

(* ------------------------------- C18 ---------------------------------- *)
FoiSaqueRegistrado ==
    ultima.op \in {"registrar", "realizar_transacao"} /\ ultima.tipo = "Saque"

\* C18: when the withdrawals of a checking account go through
\* Saque.registrar, its history never holds more Withdrawal records than
\* the count ceiling, every Withdrawal record has an amount a with
\* 0 < a <= the withdrawal ceiling, and a withdrawal requested when the
\* number of Withdrawal records equals the count ceiling is not accepted,
\* on the same day or on a later one.
C18_SaquesDaCorrente ==
    /\ \A a \in Contas : Classe(a) = "ContaCorrente" =>
         /\ RegistrosDoTipo(transacoes[a], "Saque") <= LIMITE_SAQUES
         /\ \A i \in 1..Len(transacoes[a]) :
               transacoes[a][i].tipo = "Saque" =>
                 (0 < transacoes[a][i].valor /\ transacoes[a][i].valor <= LIMITE)
    /\ (FoiSaqueRegistrado /\ Corrente /\ SaquesAntes = LIMITE_SAQUES) =>
         (~Aceita /\ Intacta)

\* the count ceiling was reached on the first day and a withdrawal within
\* the withdrawal ceiling is refused on the second day
C18_Witness ==
    /\ FoiSaqueRegistrado /\ Corrente /\ SaquesAntes = LIMITE_SAQUES
    /\ RegistrosDoDia(HistAntes, 1) = Len(HistAntes) /\ ultima.dia = 2
    /\ ultima.valor = LIMITE /\ ultima.motivo = "WithdrawalCountExceeded"

(* ------------------------------- C13 ---------------------------------- *)
\* the records of the targeted account written before the day of the call
AntesDeHoje == Len(HistAntes) - HojeNaConta

\* C13: the records of an earlier date are not counted once the date has
\* advanced: an account that holds 2 or more records of an earlier day (on
\* which it was at its daily limit) and fewer than 2 of today gets, through
\* realizar_transacao, the outcome of transacao.registrar, so an otherwise
\* valid operation is accepted; once it holds 2 records of today it is
\* rejected with DailyLimitExceeded again.
C13_NovoDia ==
    (FoiViaCliente /\ AntesDeHoje >= LIMITE_TRANSACOES_DIA) =>
      /\ HojeNaConta < LIMITE_TRANSACOES_DIA =>
           /\ ultima.motivo = Delegada.motivo
           /\ saldo[Alvo] = Delegada.saldo
           /\ transacoes[Alvo] = Delegada.transacoes
           /\ Sacar(Alvo, SaldoAntes, HistAntes, ultima.valor).sucesso
                /\ ultima.tipo = "Saque" => Aceita
           /\ Depositar(Alvo, SaldoAntes, HistAntes, ultima.valor).sucesso
                /\ ultima.tipo = "Deposito" => Aceita
      /\ HojeNaConta >= LIMITE_TRANSACOES_DIA =>
           ultima.motivo = "DailyLimitExceeded" /\ Intacta

\* after 2 records on the first day and 2 accepted operations on the
\* second, a deposit on the second day is rejected by the daily limit
C13_Witness ==
    /\ FoiViaCliente /\ ultima.dia = 2
    /\ RegistrosDoDia(HistAntes, 1) = 2 /\ RegistrosDoDia(HistAntes, 2) = 2
    /\ ultima.tipo = "Deposito" /\ ultima.valor = 500
    /\ ultima.motivo = "DailyLimitExceeded"

(* ------------------------------- C17 ---------------------------------- *)
\* C17: when every operation goes through realizar_transacao and the clock
\* never goes backwards, no history holds more than 2 records with the same
\* calendar date, also when the date changes between the test of the daily
\* limit and the stamping of the record.
C17_DoisPorData ==
    \A a \in Contas : \A d \in 1..MaxDias :
        RegistrosDoDia(transacoes[a], d) <= LIMITE_TRANSACOES_DIA

\* an operation tested against the first day, whose 2 records the account
\* did not hold yet, was stamped with the second day
C17_Witness ==
    /\ FoiViaCliente /\ Aceita /\ ultima.dia = 1 /\ agora = 2
    /\ HojeNaConta = 1
    /\ RegistrosDoDia(transacoes[Alvo], 1) = 1
    /\ RegistrosDoDia(transacoes[Alvo], 2) = 1

(* ------------------------------- C14 ---------------------------------- *)
\* the records of h whose kind equals the filter f ignoring letter case, in
\* the order of h; all of h when no filter is given
Filtrado(h, f) ==
    LET Igual(t) == Lower(t.tipo) = Lower(f)
    IN  IF f = None THEN h ELSE SelectSeq(h, Igual)

\* C14: a generator of gerar_relatorio yields, in insertion order, every
\* record when no filter is given and exactly the records whose kind equals
\* the filter ignoring letter case otherwise: what it has yielded so far is
\* the beginning of that sequence, and all of it (for the history it ran
\* over) once it has finished; this holds for every generator, whatever the
\* other generators of the same history have consumed.
C14_Relatorio ==
    \A k \in 1..Len(geradores) :
        LET g == geradores[k]
            h == transacoes[g.conta]
            esperado == Filtrado(h, g.tipo_transacao)
        IN  /\ Len(g.saida) <= Len(esperado)
            /\ g.saida = SubSeq(esperado, 1, Len(g.saida))
            /\ g.tipo_transacao = None => g.saida = SubSeq(h, 1, Len(g.saida))
            /\ g.fim =>
                 /\ g.saida = Filtrado(g.lista_no_fim, g.tipo_transacao)
                 /\ Len(g.lista_no_fim) <= Len(h)
                 /\ g.lista_no_fim = SubSeq(h, 1, Len(g.lista_no_fim))

\* on a history of a deposit and two withdrawals, a generator with the
\* filter "saque" has yielded one record and is still open, and a later
\* generator without filter has run to its end and yielded all three
C14_Witness ==
    /\ Len(geradores) = 2
    /\ geradores[1].conta = geradores[2].conta
    /\ Len(transacoes[geradores[1].conta]) = 3
    /\ RegistrosDoTipo(transacoes[geradores[1].conta], "Saque") = 2
    /\ geradores[1].tipo_transacao = "saque"
    /\ Len(geradores[1].saida) = 1 /\ ~geradores[1].fim
    /\ geradores[2].tipo_transacao = None
    /\ geradores[2].fim /\ Len(geradores[2].saida) = 3

(* ------------------------------- C12 ---------------------------------- *)
Prefixo(h1, h2) == Len(h1) <= Len(h2) /\ h1 = SubSeq(h2, 1, Len(h1))

\* C12: across every step of the program driven from the menu (depositar
\* and sacar, which go through realizar_transacao, transacoes_do_dia and
\* the primitives; exibir_extrato, which reads gerar_relatorio; criar_conta,
\* criar_cliente; midnight) the history of every account before the step
\* is a prefix of its history after the step: no record is removed,
\* reordered or changed in kind, amount or date.
C12_SoAcrescenta ==
    [][\A a \in TodasContas : Prefixo(transacoes[a], transacoes'[a])]_vars

\* a statement has been printed for an account holding a deposit and a
\* withdrawal, and the history is the one it printed
C12_Witness ==
    /\ ultima.op = "exibir_extrato" /\ Aceita
    /\ Len(transacoes[Alvo]) >= 2
    /\ RegistrosDoTipo(transacoes[Alvo], "Saque") >= 1
    /\ ultima.impresso.extrato = transacoes[Alvo]

(* ------------------------------- C15 ---------------------------------- *)
\* the tax ids of the customers of the directory cs
CpfsDe(cs) == {cs[i].cpf : i \in 1..Len(cs)}

\* C15: no two customers of the directory have the same cpf, and a
\* criar_cliente request whose cpf is already present leaves the directory
\* as it was (one whose cpf is not present appends one customer with that
\* cpf and no account).
C15_CpfUnico ==
    /\ \A i, j \in 1..Len(clientes) :
         clientes[i].cpf = clientes[j].cpf => i = j
    /\ ultima.op = "criar_cliente" =>
         IF ultima.cpf \in CpfsDe(ultima.clientes_antes)
         THEN clientes = ultima.clientes_antes /\ ~Aceita
         ELSE /\ clientes = Append(ultima.clientes_antes,
                                   [cpf |-> ultima.cpf, contas |-> <<>>])
              /\ Aceita

\* with two customers in the directory, the first of them owning an
\* account, a request with the cpf of the first has been refused
C15_Witness ==
    /\ ultima.op = "criar_cliente" /\ ~Aceita
    /\ Len(clientes) = 2 /\ ultima.cpf = clientes[1].cpf
    /\ clientes[1].contas # <<>>

(* ------------------------------- C19 ---------------------------------- *)
FoiEntrada == ultima.op \in {"menu_depositar", "menu_sacar", "exibir_extrato"}
\* the customers of the directory, before the last call, with the cpf typed
DonosAntes ==
    {i \in 1..Len(ultima.clientes_antes) :
        ultima.clientes_antes[i].cpf = ultima.cpf}

\* C19: through depositar, sacar and exibir_extrato only the first account
\* of a customer is operated on: every account a customer owns after the
\* first has balance 0 and an empty history; a call for a customer who
\* owns accounts leaves every account but the customer's first as it was,
\* and a call for a customer who owns none (or for a cpf of nobody) leaves
\* every account as it was.
C19_SoAPrimeira ==
    /\ \A c \in 1..Len(clientes) : \A i \in 2..Len(clientes[c].contas) :
         /\ saldo[clientes[c].contas[i]] = 0
         /\ transacoes[clientes[c].contas[i]] = <<>>
    /\ FoiEntrada =>
         \A c \in DonosAntes :
            LET dele == ultima.clientes_antes[c].contas
            IN  IF dele = <<>>
                THEN /\ saldo = ultima.saldo_antes
                     /\ transacoes = ultima.transacoes_antes
                     /\ ultima.motivo = "AccountNotFound"
                ELSE /\ Alvo = dele[1]
                     /\ \A b \in TodasContas \ {dele[1]} :
                          /\ saldo[b] = ultima.saldo_antes[b]
                          /\ transacoes[b] = ultima.transacoes_antes[b]
    /\ (FoiEntrada /\ DonosAntes = {}) =>
         /\ saldo = ultima.saldo_antes
         /\ transacoes = ultima.transacoes_antes
         /\ ultima.motivo = "CustomerNotFound"

\* a customer owns two accounts; after a deposit, a withdrawal through
\* sacar has been accepted on the first and the second is as created
C19_Witness ==
    /\ ultima.op = "menu_sacar" /\ Aceita
    /\ \E c \in 1..Len(clientes) :
         /\ Len(clientes[c].contas) = 2
         /\ Alvo = clientes[c].contas[1]
         /\ Len(transacoes[clientes[c].contas[1]]) = 2
         /\ transacoes[clientes[c].contas[2]] = <<>>
====
